---------------------------- MODULE Spec2Model ----------------------------
(***************************************************************************)
(* Air quality prediction system: the FastAPI prediction server            *)
(* (src/api_server.py) and the Streamlit dashboard session                 *)
(* (src/dashboard.py).                                                     *)
(*                                                                         *)
(* Real numbers (pollutant concentrations, AQI scores) are integers that   *)
(* count thousandths: 25.0 is 25000, 0.5 is 500, 50.004 is 50004.          *)
(* A Python str that the code searches with `in` is the tuple of its       *)
(* characters, a non-ASCII character written as its code point.            *)
(***************************************************************************)
EXTENDS Integers, Sequences, FiniteSets, TLC

VARIABLES
    model,            \* api_server.model: the loaded regressor, or NoModel
    response,         \* the HTTP response in flight to the client, or NoResponse
    call,             \* what the handler of that response did (provider seen, model input)
    use_sample_data,  \* dashboard sidebar checkbox
    api,              \* dashboard: what GET {api_url}/predict currently answers
    faults,           \* dashboard: API calls of this session that failed so far
    pc,               \* dashboard: position of the script run
    now,              \* dashboard: the clock, in refresh intervals
    data,             \* dashboard: result of fetch_data() in this script run
    status_color,     \* dashboard: get_status_color(data["status"])
    aqi_history,      \* st.session_state.aqi_history
    error,            \* dashboard: the st.error banner of fetch_data(), or "none"
    fetched,          \* dashboard: fetch_data() calls of this session
    appended          \* dashboard: every entry appended to aqi_history, in order

serverVars == <<model, response, call>>
dashVars == <<use_sample_data, api, faults, pc, now, data, status_color,
              aqi_history, error, fetched, appended>>
vars == <<model, response, call, use_sample_data, api, faults, pc, now, data,
          status_color, aqi_history, error, fetched, appended>>

----------------------------------------------------------------------------
(* Bounds *)

\* hourly values that precede the latest one in a provider series
MaxOlder == 1

\* script runs (refresh cycles) of one dashboard session
MaxCycles == 25

\* API calls of one dashboard session that fail
MaxFaults == 2

----------------------------------------------------------------------------
(* Values *)

\* JSON null / Python None inside an hourly series (concentrations are >= 0)
None == -1

NoModel == "None"
Loaded == "RandomForest"

HourlyKeys == {"pm2_5", "pm10", "nitrogen_dioxide", "sulphur_dioxide",
               "carbon_monoxide", "ozone"}

\* the fixed reading of the except branch of fetch_live_data
FALLBACK == [pm2_5 |-> 25000, pm10 |-> 45000, no2 |-> 12000,
             so2 |-> 5000, co |-> 500, o3 |-> 45000, nh3 |-> 0]

\* the query of the home() discovery payload: pm25=10&pm10=20&no2=15&so2=5&co=0.5&o3=40&nh3=0
EXAMPLE == [pm25 |-> 10000, pm10 |-> 20000, no2 |-> 15000,
            so2 |-> 5000, co |-> 500, o3 |-> 40000, nh3 |-> 0]

STATUS_GOOD == <<"G", "o", "o", "d", " ", "U+1F60A">>
STATUS_MODERATE == <<"M", "o", "d", "e", "r", "a", "t", "e", " ", "U+1F610">>
STATUS_SENSITIVE == <<"U", "n", "h", "e", "a", "l", "t", "h", "y", " ", "f", "o", "r", " ", "S", "e", "n", "s", "i", "t", "i", "v", "e", " ", "G", "r", "o", "u", "p", "s", " ", "U+1F637">>
STATUS_UNHEALTHY == <<"U", "n", "h", "e", "a", "l", "t", "h", "y", " ", "U+1F61E">>
STATUS_VERY_UNHEALTHY == <<"V", "e", "r", "y", " ", "U", "n", "h", "e", "a", "l", "t", "h", "y", " ", "U+1F628">>
STATUS_HAZARDOUS == <<"H", "a", "z", "a", "r", "d", "o", "u", "s", " ", "U+2620", "U+FE0F">>

----------------------------------------------------------------------------
(* The external pollutant provider, as fetch_live_data sees it *)

\* the latest value the provider reports for each series when it has one
Level == [pm2_5 |-> 10000, pm10 |-> 20000, nitrogen_dioxide |-> 15000,
          sulphur_dioxide |-> 5000, carbon_monoxide |-> 500, ozone |-> 40000]

Shapes == {"value", "null", "empty"}

\* a series of pad older values (99.0, unlike every latest value) and the latest one

Series(k, pad, shape) ==
    IF shape = "empty" THEN <<>>
    ELSE [i \in 1..pad |-> 99000] \o <<IF shape = "null" THEN None ELSE Level[k]>>

\* 200 responses with a JSON body holding every hourly series
OkBehaviours ==
    {[transport |-> "ok", status |-> 200, is_json |-> TRUE,
      body |-> [hourly |-> [k \in HourlyKeys |-> Series(k, pad, sh[k])]]] :
        pad \in 0..MaxOlder, sh \in [HourlyKeys -> Shapes]}

\* 200 responses whose hourly object lacks one series
MissingSeriesBehaviours ==
    {[transport |-> "ok", status |-> 200, is_json |-> TRUE,
      body |-> [hourly |-> [k \in HourlyKeys \ {m} |-> Series(k, 0, "value")]]] :
        m \in HourlyKeys}

FailureBehaviours ==
    {[transport |-> "timeout", status |-> 0, is_json |-> FALSE, body |-> <<>>],
     [transport |-> "ok", status |-> 404, is_json |-> TRUE, body |-> <<>>],
     [transport |-> "ok", status |-> 503, is_json |-> FALSE, body |-> <<>>],
     [transport |-> "ok", status |-> 200, is_json |-> FALSE, body |-> <<>>],
     [transport |-> "ok", status |-> 200, is_json |-> TRUE, body |-> <<>>]}

ProviderBehaviours == OkBehaviours \cup MissingSeriesBehaviours \cup FailureBehaviours

----------------------------------------------------------------------------
(* fetch_live_data *)

Raise(e) == [exc |-> e]
Return(v) == [exc |-> "none", value |-> v]

\* hourly[k][-1] if hourly[k] else 0
Latest(series) == IF series # <<>> THEN series[Len(series)] ELSE 0

\* the try body: requests.get, raise_for_status, response.json, the dict lookups
fetch_try(p) ==
    IF p.transport # "ok" THEN Raise("Timeout")
    ELSE IF p.status >= 400 THEN Raise("HTTPError")
    ELSE IF ~p.is_json THEN Raise("JSONDecodeError")
    ELSE IF "hourly" \notin DOMAIN p.body THEN Raise("KeyError")
    ELSE LET hourly == p.body.hourly IN
         IF \E k \in HourlyKeys : k \notin DOMAIN hourly THEN Raise("KeyError")
         ELSE Return([pm2_5 |-> Latest(hourly.pm2_5),
                      pm10 |-> Latest(hourly.pm10),
                      no2 |-> Latest(hourly.nitrogen_dioxide),
                      so2 |-> Latest(hourly.sulphur_dioxide),
                      co |-> Latest(hourly.carbon_monoxide),
                      o3 |-> Latest(hourly.ozone),
                      nh3 |-> 0])

\* `except requests.RequestException` in place of `except Exception`
CaughtRequestsOnly(e) == e \in {"Timeout", "HTTPError"}

\* `except Exception`: every exception of the try body is caught
Caught(e) == TRUE

fetch_live_data(p) ==
    LET r == fetch_try(p) IN
    IF r.exc # "none" /\ Caught(r.exc) THEN Return(FALLBACK) ELSE r

----------------------------------------------------------------------------
(* get_aqi_status *)

\* the thresholds compared with < in place of <=
get_aqi_status_strict(aqi) ==
    IF aqi < 50000 THEN STATUS_GOOD
    ELSE IF aqi < 100000 THEN STATUS_MODERATE
    ELSE IF aqi < 150000 THEN STATUS_SENSITIVE
    ELSE IF aqi < 200000 THEN STATUS_UNHEALTHY
    ELSE IF aqi < 300000 THEN STATUS_VERY_UNHEALTHY
    ELSE STATUS_HAZARDOUS

get_aqi_status(aqi) ==
    IF aqi <= 50000 THEN STATUS_GOOD
    ELSE IF aqi <= 100000 THEN STATUS_MODERATE
    ELSE IF aqi <= 150000 THEN STATUS_SENSITIVE
    ELSE IF aqi <= 200000 THEN STATUS_UNHEALTHY
    ELSE IF aqi <= 300000 THEN STATUS_VERY_UNHEALTHY
    ELSE STATUS_HAZARDOUS

\* round(prediction, 2): to the nearest hundredth, a tie to the even one
Round2(p) ==
    LET q == p \div 10
        r == p % 10
    IN  IF r < 5 THEN q * 10
        ELSE IF r > 5 THEN (q + 1) * 10
        ELSE IF q % 2 = 0 THEN q * 10 ELSE (q + 1) * 10

----------------------------------------------------------------------------
(* The model: an opaque regressor *)

Thresholds == {50000, 100000, 150000, 200000, 300000}
Offsets == {-4, 0, 3, 4, 6, 1000}

\* the scores model.predict(X)[0] may return
Predictions == {t + d : t \in Thresholds, d \in Offsets}

\* model.predict(X) either returns a score or raises
InferenceOutcomes ==
    {[raises |-> FALSE, score |-> s] : s \in Predictions}
        \cup {[raises |-> TRUE, score |-> 0]}

----------------------------------------------------------------------------
(* The request handlers *)

NoResponse == [endpoint |-> "none"]
NoCall == [fetches |-> 0, inferences |-> 0]

HTTPException(endpoint, detail) ==
    [endpoint |-> endpoint, code |-> 500, detail |-> detail]

\* the live vector built in the order of the custom one
LiveFeaturesCustomOrder(d) == <<d.pm2_5, 0, d.no2, d.nh3, d.co, d.so2, d.o3, d.pm10>>

\* X = np.array([[...]]) of predict()
LiveFeatures(d) == <<d.pm2_5, d.pm10, 0, d.no2, d.nh3, d.co, d.so2, d.o3>>

\* X = np.array([[...]]) of predict_custom()
CustomFeatures(pm25, pm10, no2, so2, co, o3, nh3) ==
    <<pm25, 0, no2, nh3, co, so2, o3, pm10>>

\* the body of predict() for provider behaviour p and inference outcome out
predict_body(m, p, out) ==
    IF m = NoModel
    THEN [response |-> HTTPException("predict", "Model not loaded"),
          call |-> NoCall]
    ELSE LET r == fetch_live_data(p) IN
         IF r.exc # "none"
         THEN [response |-> HTTPException("predict", "Prediction error"),
               call |-> [fetches |-> 1, inferences |-> 0, provider |-> p]]
         ELSE LET X == LiveFeatures(r.value) IN
              IF out.raises
              THEN [response |-> HTTPException("predict", "Prediction error"),
                    call |-> [fetches |-> 1, inferences |-> 1, provider |-> p,
                              data |-> r.value, X |-> X, outcome |-> out]]
              ELSE [response |-> [endpoint |-> "predict", code |-> 200,
                                  AQI_Predicted |-> Round2(out.score),
                                  status |-> get_aqi_status(out.score),
                                  pollutants |-> r.value,
                                  location |-> "Delhi, India",
                                  timestamp |-> "Live data"],
                    call |-> [fetches |-> 1, inferences |-> 1, provider |-> p,
                              data |-> r.value, X |-> X, outcome |-> out]]

\* predict_custom() without its `if model is None` check: None.predict raises
predict_custom_body_unchecked(m, q, out) ==
    [response |-> HTTPException("predict_custom", "Prediction error"),
     call |-> [fetches |-> 0, inferences |-> 1, query |-> q]]

\* the body of predict_custom() for query q and inference outcome out
predict_custom_body(m, q, out) ==
    IF m = NoModel
    THEN [response |-> HTTPException("predict_custom", "Model not loaded"),
          call |-> NoCall]
    ELSE LET nh3 == IF "nh3" \in DOMAIN q THEN q.nh3 ELSE 0
             X == CustomFeatures(q.pm25, q.pm10, q.no2, q.so2, q.co, q.o3, nh3)
         IN  IF out.raises
             THEN [response |-> HTTPException("predict_custom", "Prediction error"),
                   call |-> [fetches |-> 0, inferences |-> 1, query |-> q,
                             X |-> X, outcome |-> out]]
             ELSE [response |-> [endpoint |-> "predict_custom", code |-> 200,
                                 AQI_Predicted |-> Round2(out.score),
                                 status |-> get_aqi_status(out.score),
                                 input_parameters |->
                                     [pm25 |-> q.pm25, pm10 |-> q.pm10,
                                      no2 |-> q.no2, so2 |-> q.so2, co |-> q.co,
                                      o3 |-> q.o3, nh3 |-> nh3]],
                   call |-> [fetches |-> 0, inferences |-> 1, query |-> q,
                             X |-> X, outcome |-> out]]

\* a second value for each query parameter
ALTERNATIVE == [pm25 |-> 25000, pm10 |-> 45000, no2 |-> 12000,
                so2 |-> 8000, co |-> 900, o3 |-> 45000, nh3 |-> 2000]

RequiredQueries ==
    {[k \in {"pm25", "pm10", "no2", "so2", "co", "o3"} |->
        IF k \in alt THEN ALTERNATIVE[k] ELSE EXAMPLE[k]] :
        alt \in SUBSET {"pm25", "pm10", "no2", "so2", "co", "o3"}}

\* the well-formed queries of /predict/custom: nh3 is optional
CustomQueries ==
    RequiredQueries
        \cup {[k \in DOMAIN q \cup {"nh3"} |-> IF k = "nh3" THEN n ELSE q[k]] :
                q \in RequiredQueries, n \in {EXAMPLE.nh3, ALTERNATIVE.nh3}}

predict ==
    /\ response = NoResponse
    /\ \E p \in ProviderBehaviours, out \in InferenceOutcomes :
          LET b == predict_body(model, p, out) IN
          /\ response' = b.response
          /\ call' = b.call
    /\ UNCHANGED <<model, dashVars>>

predict_custom ==
    /\ response = NoResponse
    /\ \E q \in CustomQueries, out \in InferenceOutcomes :
          LET b == predict_custom_body(model, q, out) IN
          /\ response' = b.response
          /\ call' = b.call
    /\ UNCHANGED <<model, dashVars>>

health_check ==
    /\ response = NoResponse
    /\ response' = [endpoint |-> "health", code |-> 200,
                    status |-> IF model # NoModel THEN "healthy"
                               ELSE "model_not_loaded",
                    model_loaded |-> model # NoModel]
    /\ call' = NoCall
    /\ UNCHANGED <<model, dashVars>>

home ==
    /\ response = NoResponse
    /\ response' = [endpoint |-> "home", code |-> 200,
                    message |-> "Air Quality Prediction API is Running!"]
    /\ call' = NoCall
    /\ UNCHANGED <<model, dashVars>>

\* the server sends the response and waits for the next request
deliver ==
    /\ response # NoResponse
    /\ response' = NoResponse
    /\ call' = NoCall
    /\ UNCHANGED <<model, dashVars>>


----------------------------------------------------------------------------
(* The dashboard script *)

sample_data == [AQI_Predicted |-> 45500, status |-> STATUS_GOOD,
                pollutants |-> [pm2_5 |-> 25000, pm10 |-> 45000, no2 |-> 12000,
                                so2 |-> 5000, co |-> 500, o3 |-> 45000, nh3 |-> 0],
                location |-> "Delhi, India", timestamp |-> "Sample Data"]

NoData == [status |-> <<>>]

\* needle in hay, for two Python strings
In(needle, hay) ==
    \E i \in 1..(Len(hay) - Len(needle) + 1) :
        SubSeq(hay, i, i + Len(needle) - 1) = needle

\* the 'Very Unhealthy' test placed before the 'Unhealthy' one
get_status_color_reordered(status) ==
    IF In(<<"G", "o", "o", "d">>, status) THEN "green"
    ELSE IF In(<<"M", "o", "d", "e", "r", "a", "t", "e">>, status) THEN "orange"
    ELSE IF In(<<"V", "e", "r", "y", " ", "U", "n", "h", "e", "a", "l", "t", "h", "y">>, status)
         THEN "purple"
    ELSE IF In(<<"U", "n", "h", "e", "a", "l", "t", "h", "y">>, status) THEN "red"
    ELSE "maroon"

get_status_color(status) ==
    IF In(<<"G", "o", "o", "d">>, status) THEN "green"
    ELSE IF In(<<"M", "o", "d", "e", "r", "a", "t", "e">>, status) THEN "orange"
    ELSE IF In(<<"U", "n", "h", "e", "a", "l", "t", "h", "y">>, status) THEN "red"
    ELSE IF In(<<"V", "e", "r", "y", " ", "U", "n", "h", "e", "a", "l", "t", "h", "y">>, status)
         THEN "purple"
    ELSE "maroon"

\* what requests.get(f"{api_url}/predict") meets
Refused == [kind |-> "refused"]
Http(r) == [kind |-> "http", code |-> r.code, is_json |-> TRUE, body |-> r]
NotJson == [kind |-> "http", code |-> 200, is_json |-> FALSE, body |-> NoData]

\* the provider is down: the server predicts from the fallback reading
ProviderDown == [transport |-> "timeout", status |-> 0, is_json |-> FALSE, body |-> <<>>]

\* the provider's latest pm2_5 is null
ProviderNull ==
    [transport |-> "ok", status |-> 200, is_json |-> TRUE,
     body |-> [hourly |-> [k \in HourlyKeys |->
                 Series(k, 0, IF k = "pm2_5" THEN "null" ELSE "value")]]]

\* one score in each band
BandScores == {50000, 100000, 150000, 200000, 300000, 301000}

\* the answers of a server whose model is loaded
ApiAnswers ==
    {Http(predict_body(Loaded, ProviderDown, [raises |-> FALSE, score |-> s]).response) :
        s \in BandScores}
    \cup {Http(predict_body(Loaded, ProviderNull, [raises |-> FALSE, score |-> 50000]).response)}

\* the calls that fail: nobody listens, the model is not loaded, the body is not JSON
ApiFaults ==
    {Refused,
     Http(predict_body(NoModel, ProviderDown, [raises |-> FALSE, score |-> 0]).response),
     NotJson}

\* fetch_data() handing on the body of a non-200 answer
fetch_data_no_fallback(sample, answer) ==
    IF sample THEN [data |-> sample_data, error |-> "none"]
    ELSE IF answer.kind = "refused"
         THEN [data |-> sample_data, error |-> "Connection Error"]
    ELSE IF answer.code = 200 /\ answer.is_json
         THEN [data |-> answer.body, error |-> "none"]
    ELSE [data |-> [AQI_Predicted |-> 0, status |-> <<>>,
                    pollutants |-> [pm2_5 |-> 0]],
          error |-> "API Error"]

\* fetch_data(): the data and the st.error banner
fetch_data(sample, answer) ==
    IF sample THEN [data |-> sample_data, error |-> "none"]
    ELSE IF answer.kind = "refused"
         THEN [data |-> sample_data, error |-> "Connection Error"]
    ELSE IF answer.code = 200
         THEN IF answer.is_json THEN [data |-> answer.body, error |-> "none"]
              ELSE [data |-> sample_data, error |-> "Connection Error"]
    ELSE [data |-> sample_data, error |-> "API Error"]

\* pop() in place of pop(0): the newest entry is dropped
update_history_pop_last(h, entry) ==
    LET g == Append(h, entry) IN
    IF Len(g) > 20 THEN SubSeq(g, 1, Len(g) - 1) ELSE g

\* aqi_history.append(entry); if len(aqi_history) > 20: aqi_history.pop(0)
update_history(h, entry) ==
    LET g == Append(h, entry) IN
    IF Len(g) > 20 THEN Tail(g) ELSE g

\* col1: data = fetch_data(); status_color = get_status_color(data["status"])
fetch ==
    /\ pc = "fetch"
    /\ \E answer \in {api} \cup (IF faults < MaxFaults /\ ~use_sample_data
                                  THEN ApiFaults ELSE {}) :
          LET f == fetch_data(use_sample_data, answer) IN
          /\ data' = f.data
          /\ error' = f.error
          /\ status_color' = get_status_color(f.data.status)
          /\ faults' = IF answer \in ApiFaults THEN faults + 1 ELSE faults
    /\ fetched' = fetched + 1
    /\ pc' = "history"
    /\ UNCHANGED <<serverVars, use_sample_data, api, now, aqi_history, appended>>

\* col2: append the reading, keep only the last 20
history ==
    /\ pc = "history"
    /\ LET entry == [time |-> now, aqi |-> data.AQI_Predicted] IN
          /\ aqi_history' = update_history(aqi_history, entry)
          /\ appended' = Append(appended, entry)
    /\ pc' = "pollutants"
    /\ UNCHANGED <<serverVars, use_sample_data, api, faults, now, data,
                   status_color, error, fetched>>

\* col3: st.progress(min(value / 100, 1.0)) for each pollutant; None / 100 raises
pollutants ==
    /\ pc = "pollutants"
    /\ pc' = IF \E k \in DOMAIN data.pollutants : data.pollutants[k] = None
             THEN "crashed" ELSE "sleep"
    /\ UNCHANGED <<serverVars, use_sample_data, api, faults, now, data,
                   status_color, aqi_history, error, fetched, appended>>

\* time.sleep(refresh_rate); st.rerun()
sleep_rerun ==
    /\ pc = "sleep"
    /\ now < MaxCycles
    /\ now' = now + 1
    /\ pc' = "fetch"
    /\ UNCHANGED <<serverVars, use_sample_data, api, faults, data,
                   status_color, aqi_history, error, fetched, appended>>

----------------------------------------------------------------------------
(* Specifications *)

\* the server process after start-up; no dashboard session runs
Init ==
    /\ model \in {Loaded, NoModel}
    /\ response = NoResponse
    /\ call = NoCall
    /\ use_sample_data = FALSE
    /\ api = Refused
    /\ faults = 0
    /\ pc = "off"
    /\ now = 1
    /\ data = NoData
    /\ status_color = ""
    /\ aqi_history = <<>>
    /\ error = "none"
    /\ fetched = 0
    /\ appended = <<>>

Next == predict \/ predict_custom \/ health_check \/ home \/ deliver

Spec == Init /\ [][Next]_vars

\* a dashboard session from its first script run
DashInit ==
    /\ model = Loaded
    /\ response = NoResponse
    /\ call = NoCall
    /\ use_sample_data \in BOOLEAN
    /\ api \in ApiAnswers
    /\ faults = 0
    /\ pc = "fetch"
    /\ now = 1
    /\ data = NoData
    /\ status_color = ""
    /\ aqi_history = <<>>
    /\ error = "none"
    /\ fetched = 0
    /\ appended = <<>>

DashNext == fetch \/ history \/ pollutants \/ sleep_rerun

DashSpec == DashInit /\ [][DashNext]_vars

----------------------------------------------------------------------------
(* Properties *)

Prediction200 ==
    /\ response.endpoint \in {"predict", "predict_custom"}
    /\ response.code = 200

Numeric(X) == \A i \in 1..Len(X) : X[i] # None

\* C1: the vector predict_custom() builds from a query equals, position by
\* position, the vector predict() builds from a reading with the same values.
C1_SameFeatureVector ==
    (response.endpoint = "predict_custom" /\ call.inferences = 1) =>
        LET q == call.query
            reading == [pm2_5 |-> q.pm25, pm10 |-> q.pm10, no2 |-> q.no2,
                        so2 |-> q.so2, co |-> q.co, o3 |-> q.o3,
                        nh3 |-> IF "nh3" \in DOMAIN q THEN q.nh3 ELSE 0]
        IN  /\ Len(call.X) = Len(LiveFeatures(reading))
            /\ \A i \in 1..Len(call.X) : call.X[i] = LiveFeatures(reading)[i]

\* C2: the AQI history never holds more than 20 entries and is exactly the
\* most recent min(n, 20) of the n entries appended so far, in arrival order.
C2_HistoryKeepsLast20 ==
    LET n == Len(appended)
        k == IF n < 20 THEN n ELSE 20
    IN  /\ Len(aqi_history) <= 20
        /\ Len(aqi_history) = k
        /\ \A i \in 1..k : aqi_history[i] = appended[n - k + i]

C2_Witness ==
    /\ Len(appended) = 25
    /\ Len(aqi_history) = 20
    /\ aqi_history[1].time = 6
    /\ aqi_history[20].time = 25

\* the provider call failed: timeout, non-2xx status, body that is not JSON,
\* no 'hourly' key, or a pollutant series missing from it
ProviderFailed(p) ==
    \/ p.transport # "ok"
    \/ p.status \notin 200..299
    \/ ~p.is_json
    \/ "hourly" \notin DOMAIN p.body
    \/ ~(HourlyKeys \subseteq DOMAIN p.body.hourly)

BandIndex(status) ==
    CASE status = STATUS_GOOD -> 1
      [] status = STATUS_MODERATE -> 2
      [] status = STATUS_SENSITIVE -> 3
      [] status = STATUS_UNHEALTHY -> 4
      [] status = STATUS_VERY_UNHEALTHY -> 5
      [] status = STATUS_HAZARDOUS -> 6

\* the band the documented thresholds give a score
DocumentedBand(score) ==
    CASE score <= 50000 -> 1
      [] 50000 < score /\ score <= 100000 -> 2
      [] 100000 < score /\ score <= 150000 -> 3
      [] 150000 < score /\ score <= 200000 -> 4
      [] 200000 < score /\ score <= 300000 -> 5
      [] 300000 < score -> 6

\* C5: get_aqi_status gives every score the band of the inclusive thresholds
\* 50, 100, 150, 200, 300, and the band never decreases as the score grows.
C5_StatusBands ==
    Prediction200 =>
        LET score == call.outcome.score IN
        /\ BandIndex(response.status) = DocumentedBand(score)
        /\ \A t \in Predictions :
              t <= score => BandIndex(get_aqi_status(t)) <= BandIndex(response.status)
        /\ \A t \in Thresholds :
              /\ BandIndex(get_aqi_status(t + 1000)) = BandIndex(get_aqi_status(t)) + 1
              /\ score = t => BandIndex(response.status) = DocumentedBand(t - 1)

C5_Witness ==
    /\ Prediction200
    /\ call.outcome.score = 300000
    /\ response.status = STATUS_VERY_UNHEALTHY

\* C6: with the model loaded, and unless inference fails on numeric input, the
\* live endpoint answers 200 with a numeric AQI whatever the provider does.
C6_LiveAlwaysNumeric ==
    (/\ response.endpoint = "predict"
     /\ model = Loaded
     /\ ~(call.inferences = 1 /\ call.outcome.raises /\ Numeric(call.X))) =>
        /\ response.code = 200
        /\ "AQI_Predicted" \in DOMAIN response

\* C7: the live path hands the model [pm2_5, pm10, 0.0, no2, nh3, co, so2, o3]
\* of the reading it fetched; the example reading gives [10, 20, 0, 15, 0, 0.5, 5, 40].
C7_LiveVectorOrder ==
    (response.endpoint = "predict" /\ call.inferences = 1) =>
        LET d == call.data
            X == call.X
        IN  /\ Len(X) = 8
            /\ X[1] = d.pm2_5 /\ X[2] = d.pm10 /\ X[3] = 0 /\ X[4] = d.no2
            /\ X[5] = d.nh3 /\ X[6] = d.co /\ X[7] = d.so2 /\ X[8] = d.o3
            /\ d = [pm2_5 |-> 10000, pm10 |-> 20000, no2 |-> 15000, so2 |-> 5000,
                    co |-> 500, o3 |-> 40000, nh3 |-> 0]
                 => X = <<10000, 20000, 0, 15000, 0, 500, 5000, 40000>>

C7_Witness ==
    /\ response.endpoint = "predict"
    /\ call.inferences = 1
    /\ call.provider \in OkBehaviours
    /\ Len(call.provider.body.hourly.pm2_5) = 2
    /\ call.X = <<10000, 20000, 0, 15000, 0, 500, 5000, 40000>>

\* C8: in every successful prediction response the status is the band of the
\* AQI_Predicted of the same response.
C8_StatusOfReturnedScore ==
    Prediction200 => response.status = get_aqi_status(response.AQI_Predicted)

\* a script run is past its fetch
Fetched == pc \in {"history", "pollutants", "sleep", "crashed"}

C9_CycleOrder ==
    /\ pc = "fetch" => fetched = now - 1 /\ Len(appended) = now - 1
    /\ pc = "history" => fetched = now /\ Len(appended) = now - 1
    /\ pc \in {"pollutants", "sleep", "crashed"} =>
          /\ fetched = now
          /\ Len(appended) = now
          /\ appended[now].time = now
          /\ appended[now].aqi = data.AQI_Predicted
          /\ error # "none" => appended[now].aqi = 45500

C9_SingleWriter ==
    aqi_history' # aqi_history =>
        /\ pc = "history" /\ pc' = "pollutants"
        /\ Len(appended') = Len(appended) + 1
        /\ Len(aqi_history') \in {Len(aqi_history), Len(aqi_history) + 1}

C10_StatusColors ==
    Fetched =>
        /\ data.status \in {STATUS_GOOD, STATUS_MODERATE, STATUS_SENSITIVE,
                            STATUS_UNHEALTHY, STATUS_VERY_UNHEALTHY, STATUS_HAZARDOUS}
        /\ data.status = STATUS_GOOD => status_color = "green"
        /\ data.status = STATUS_MODERATE => status_color = "orange"
        /\ data.status \in {STATUS_SENSITIVE, STATUS_UNHEALTHY, STATUS_VERY_UNHEALTHY}
              => status_color = "red"
        /\ data.status = STATUS_HAZARDOUS => status_color = "maroon"
        /\ status_color # "purple"

C10_Witness ==
    /\ Fetched
    /\ data.status = STATUS_VERY_UNHEALTHY
    /\ status_color = "red"

=============================================================================
